---- MODULE Spec2Model ----
(***************************************************************************)
(* A model of stats.py: the GitHub profile statistics run.                 *)
(*                                                                         *)
(*   get_stats_for_svg  = graph_profile_stats ; graph_contributions ;      *)
(*                        get_total_loc_cached                             *)
(*   update_svg         = parse ; patch tspan texts ; write                *)
(*                                                                         *)
(* Text is modelled at the character level: a str is a sequence of         *)
(* one-character strings, a text file is a sequence of lines.  int(), str(),*)
(* strip() and split() are computed on the characters.                     *)
(***************************************************************************)
EXTENDS Integers, Sequences, FiniteSets, TLC

VARIABLES
    pc,         \* position of the run
    cacheFile,  \* cache/loc_<hash>.txt on disk: [exists, lines]
    svgFile,    \* light-mode-profile.svg on disk: [parseable, elems]
    pages,      \* the API's pages of the user's repositories (profile query)
    prof,       \* locals of graph_profile_stats
    contrib,    \* result of graph_contributions_all_time
    cache,      \* get_total_loc_cached: the dict `cache`
    repos,      \* get_total_loc_cached: the listing `repos`
    idx,        \* get_total_loc_cached: position of the for loop in repos
    updated,    \* get_total_loc_cached: the flag `updated`
    tot,        \* get_total_loc_cached: the running totals
    stats,      \* the dict handed to update_svg
    reloaded,   \* load_cache of the file save_cache wrote (cache-file scenario)
    hist        \* observations of the run (what was requested, written, computed)

vars == <<pc, cacheFile, svgFile, pages, prof, contrib, cache, repos, idx,
          updated, tot, stats, reloaded, hist>>

(***************************************************************************)
(* Bounds of the model.                                                    *)
(***************************************************************************)
MaxCommits == 1     \* commits a repository's commit list returns
MaxRepos == 2       \* repositories in a listing
MaxPages == 3       \* pages of the profile query in the profile scenario
MaxElems == 2       \* elements of a document in the SVG scenario
MaxLines == 3       \* lines of a cache file in the cache-file scenario
MaxRuns == 2        \* runs of the program, one after the other (SpecRuns)

\* compute_repo_loc's default max_commits
max_commits == 200

(***************************************************************************)
(* Python values: str, int(), str(), None.                                 *)
(***************************************************************************)
Digits == <<"0", "1", "2", "3", "4", "5", "6", "7", "8", "9">>

IsDigit(c) == \E d \in 1..10 : Digits[d] = c

DigitVal(c) == (CHOOSE d \in 1..10 : Digits[d] = c) - 1

RECURSIVE NatStr(_)
NatStr(n) == IF n < 10 THEN <<Digits[n + 1]>>
             ELSE NatStr(n \div 10) \o <<Digits[(n % 10) + 1]>>

\* str(n) of an int
IntStr(n) == IF n < 0 THEN <<"-">> \o NatStr(0 - n) ELSE NatStr(n)

RECURSIVE DigitsVal(_, _)
DigitsVal(s, acc) == IF s = <<>> THEN acc
                     ELSE DigitsVal(Tail(s), acc * 10 + DigitVal(Head(s)))

\* int(s) of a str without whitespace: an optional sign and decimal digits;
\* anything else raises ValueError (ok = FALSE).
PyInt(s) ==
    LET signed == s /= <<>> /\ Head(s) \in {"-", "+"}
        body == IF signed THEN Tail(s) ELSE s
    IN  IF body /= <<>> /\ \A k \in 1..Len(body) : IsDigit(body[k])
        THEN [ok |-> TRUE,
              val |-> IF signed /\ Head(s) = "-" THEN 0 - DigitsVal(body, 0)
                      ELSE DigitsVal(body, 0)]
        ELSE [ok |-> FALSE, val |-> 0]

\* A value that is either a str or None.
PyNone == [none |-> TRUE, s |-> <<>>]
PyStr(s) == [none |-> FALSE, s |-> s]

\* f"{v}" of a str or None
Fmt(v) == IF v.none THEN <<"N", "o", "n", "e">> ELSE v.s

(***************************************************************************)
(* str.strip(), str.split(), str.startswith on a line.                     *)
(***************************************************************************)
IsSpace(c) == c \in {" ", "\t"}

RECURSIVE LStrip(_)
LStrip(s) == IF s /= <<>> /\ IsSpace(Head(s)) THEN LStrip(Tail(s)) ELSE s

RECURSIVE RStrip(_)
RStrip(s) == IF s /= <<>> /\ IsSpace(s[Len(s)])
             THEN RStrip(SubSeq(s, 1, Len(s) - 1)) ELSE s

Strip(s) == RStrip(LStrip(s))

\* s.split(): the maximal runs of non-space characters, in order
RECURSIVE SplitFrom(_, _, _)
SplitFrom(s, cur, acc) ==
    IF s = <<>> THEN (IF cur = <<>> THEN acc ELSE Append(acc, cur))
    ELSE IF IsSpace(Head(s))
         THEN SplitFrom(Tail(s), <<>>, IF cur = <<>> THEN acc ELSE Append(acc, cur))
         ELSE SplitFrom(Tail(s), Append(cur, Head(s)), acc)

Split(s) == SplitFrom(s, <<>>, <<>>)

RECURSIVE Join(_)
Join(fields) == IF fields = <<>> THEN <<>>
                ELSE IF Len(fields) = 1 THEN fields[1]
                ELSE fields[1] \o <<" ">> \o Join(Tail(fields))

(***************************************************************************)
(* The dict `cache`: keys in insertion order, and the value of each key.   *)
(***************************************************************************)
EmptyDict == [keys |-> <<>>, val |-> <<>>]

Keys(d) == {d.keys[k] : k \in 1..Len(d.keys)}

Has(d, key) == key \in Keys(d)

KeyPos(d, key) == CHOOSE k \in 1..Len(d.keys) : d.keys[k] = key

Get(d, key) == d.val[KeyPos(d, key)]

\* d[key] = v: a new key goes last, an old key keeps its place
Put(d, key, v) ==
    IF Has(d, key) THEN [d EXCEPT !.val[KeyPos(d, key)] = v]
    ELSE [keys |-> Append(d.keys, key), val |-> Append(d.val, v)]

\* dict ==: the same keys with the same values, in any order
DictEq(a, b) == /\ Keys(a) = Keys(b)
                /\ \A key \in Keys(a) : Get(a, key) = Get(b, key)

NoName == [has |-> FALSE, s |-> <<>>]

(***************************************************************************)
(* load_cache / save_cache                                                 *)
(***************************************************************************)
\* The comment line save_cache writes first ("# repository_hash ...", cut short).
Header == <<"#", " ", "r", "e", "p", "o", "s", "i", "t", "o", "r", "y", "_",
            "h", "a", "s", "h">>

\* load_cache's loop body, were a line of one token skipped as a malformed record
LoadLineSkipSingle(c, raw) ==
    LET line == Strip(raw)
        parts == Split(line)
        n == Len(parts)
        tc == IF n > 1 THEN PyInt(parts[2]) ELSE [ok |-> FALSE, val |-> 0]
        mc == IF n > 2 THEN PyInt(parts[3]) ELSE [ok |-> TRUE, val |-> 0]
        la == IF n > 3 THEN PyInt(parts[4]) ELSE [ok |-> TRUE, val |-> 0]
        ld == IF n > 4 THEN PyInt(parts[5]) ELSE [ok |-> TRUE, val |-> 0]
    IN  IF line = <<>> \/ Head(line) = "#" THEN c
        ELSE IF ~(tc.ok /\ mc.ok /\ la.ok /\ ld.ok) THEN c
        ELSE Put(c, parts[1],
                 [total_commits |-> tc.val, my_commits |-> mc.val,
                  loc_add |-> la.val, loc_del |-> ld.val,
                  pushed_at |-> PyStr(IF n > 5 THEN parts[6] ELSE <<>>),
                  name |-> NoName])

\* One line of load_cache's loop: the cache after the line.
LoadLine(c, raw) ==
    LET line == Strip(raw)
        parts == Split(line)
        n == Len(parts)
        tc == IF n > 1 THEN PyInt(parts[2]) ELSE [ok |-> TRUE, val |-> 0]
        mc == IF n > 2 THEN PyInt(parts[3]) ELSE [ok |-> TRUE, val |-> 0]
        la == IF n > 3 THEN PyInt(parts[4]) ELSE [ok |-> TRUE, val |-> 0]
        ld == IF n > 4 THEN PyInt(parts[5]) ELSE [ok |-> TRUE, val |-> 0]
    IN  IF line = <<>> \/ Head(line) = "#" THEN c
        ELSE IF ~(tc.ok /\ mc.ok /\ la.ok /\ ld.ok) THEN c
        ELSE Put(c, parts[1],
                 [total_commits |-> tc.val, my_commits |-> mc.val,
                  loc_add |-> la.val, loc_del |-> ld.val,
                  pushed_at |-> PyStr(IF n > 5 THEN parts[6] ELSE <<>>),
                  name |-> NoName])

RECURSIVE LoadLines(_, _)
LoadLines(c, lines) == IF lines = <<>> THEN c
                       ELSE LoadLines(LoadLine(c, Head(lines)), Tail(lines))

load_cache(file) == IF ~file.exists THEN EmptyDict
                    ELSE LoadLines(EmptyDict, file.lines)

\* save_cache's line, were loc_del written before loc_add
SaveLineSwapped(key, e) ==
    key \o <<" ">> \o IntStr(e.total_commits) \o <<" ">> \o IntStr(e.my_commits)
        \o <<" ">> \o IntStr(e.loc_del) \o <<" ">> \o IntStr(e.loc_add)
        \o <<" ">> \o Fmt(e.pushed_at)

\* The line save_cache writes for one entry (without its newline).
SaveLine(key, e) ==
    key \o <<" ">> \o IntStr(e.total_commits) \o <<" ">> \o IntStr(e.my_commits)
        \o <<" ">> \o IntStr(e.loc_add) \o <<" ">> \o IntStr(e.loc_del)
        \o <<" ">> \o Fmt(e.pushed_at)

save_cache(c) ==
    [exists |-> TRUE,
     lines |-> <<Header>> \o [k \in 1..Len(c.keys) |-> SaveLine(c.keys[k], c.val[k])]]

(***************************************************************************)
(* Observations of a run, kept beside the program's state.                 *)
(***************************************************************************)
NoHist == [file0 |-> [exists |-> FALSE, lines |-> <<>>],
           svg0 |-> [parseable |-> FALSE, elems |-> <<>>],
           loaded |-> EmptyDict,
           cacheWrites |-> 0,
           svgWrites |-> 0,
           calls |-> {},
           fresh |-> EmptyDict,
           reused |-> {},
           failed |-> FALSE,
           abortAt |-> "none",
           reqs |-> <<>>,
           run |-> 1,
           reported |-> EmptyDict]

IdleProf == [after |-> 0, repos_count |-> 0, followers |-> 0, total_stars |-> 0]
ZeroTot == [total_add |-> 0, total_del |-> 0, total_commits |-> 0,
            my_commits_total |-> 0]

(***************************************************************************)
(* What the remote API may answer.                                         *)
(*                                                                         *)
(* A REST response is "ok" (the documented JSON), "err_json" (a non-success*)
(* status whose body is the API's JSON error object {"message": ...}) or   *)
(* "err_text" (a non-success status whose body is not JSON).  The REST     *)
(* calls never look at the status: they call .json() on the body.          *)
(***************************************************************************)
Page(stars, followers) == [stars |-> stars, followers |-> followers]

\* The pages of a full run's profile query (the profile scenario takes any).
RunPages == { <<Page(<<1, 0>>, 3), Page(<<4>>, 5)>> }

Stamps == {PyStr(<<"t", "1">>), PyStr(<<"t", "2">>), PyNone}

RepoName(id) == <<"r">> \o IntStr(id)

Repo(id, pushed) == [id |-> id, name |-> RepoName(id), pushed_at |-> pushed]

\* Listings: repositories with distinct ids (in ascending order of id).
RECURSIVE ListingsFrom(_)
ListingsFrom(lo) ==
    {<<>>} \cup
    UNION { { <<Repo(id, p)>> \o rest : p \in Stamps, rest \in ListingsFrom(id + 1) }
            : id \in lo..MaxRepos }

Listings == ListingsFrom(1)

Detail(a, d, login) == [kind |-> "ok", additions |-> a, deletions |-> d,
                        author |-> login]
ErrJson == [kind |-> "err_json", additions |-> 0, deletions |-> 0, author |-> "none"]
ErrText == [kind |-> "err_text", additions |-> 0, deletions |-> 0, author |-> "none"]

\* The answers to one commit-detail request.
DetailAnswers == {Detail(1, 2, "owner"), Detail(3, 0, "other"), ErrJson, ErrText}

RECURSIVE SeqsOfLen(_, _)
SeqsOfLen(S, n) == IF n = 0 THEN {<<>>}
                   ELSE {Append(q, x) : q \in SeqsOfLen(S, n - 1), x \in S}

\* The answers to a commit-list request: the list of commits, each with the
\* answer its detail request will get, or a failure.
CommitListAnswers ==
    {[kind |-> "ok", commits |-> q] :
        q \in UNION {SeqsOfLen(DetailAnswers, n) : n \in 0..MaxCommits}}
    \cup {[kind |-> "err_json", commits |-> <<>>],
          [kind |-> "err_text", commits |-> <<>>]}

(***************************************************************************)
(* compute_repo_loc                                                        *)
(***************************************************************************)
Take(q, n) == SubSeq(q, 1, IF Len(q) < n THEN Len(q) ELSE n)

\* The for loop over the commits: each iteration requests the commit's detail.
\* .json() raises on a body that is not JSON; the error object has no "stats"
\* and no "author", so .get() reads zeros and the commit is counted.
RECURSIVE CommitLoop(_, _)
CommitLoop(commits, acc) ==
    IF commits = <<>> THEN acc
    ELSE LET data == Head(commits)
         IN  IF data.kind = "err_text" THEN [acc EXCEPT !.raised = TRUE, !.failed = TRUE]
             ELSE CommitLoop(Tail(commits),
                     [acc EXCEPT
                        !.loc_add = @ + data.additions,
                        !.loc_del = @ + data.deletions,
                        !.total_commits = @ + 1,
                        !.my_commits = @ + (IF data.author = "owner" THEN 1 ELSE 0),
                        !.failed = @ \/ data.kind = "err_json"])

\* compute_repo_loc(owner, repo) given the API's answers.  A failed commit list
\* raises: .json() on a body that is not JSON, or the slice of the error object.
compute_repo_loc(answer) ==
    LET zero == [raised |-> FALSE, failed |-> FALSE, loc_add |-> 0, loc_del |-> 0,
                 total_commits |-> 0, my_commits |-> 0]
    IN  IF answer.kind /= "ok" THEN [zero EXCEPT !.raised = TRUE, !.failed = TRUE]
        ELSE CommitLoop(Take(answer.commits, max_commits), zero)

(***************************************************************************)
(* graph_profile_stats                                                     *)
(***************************************************************************)
\* stars_counter, were it to return inside the loop (the first edge only)
stars_counterFirst(edges) == IF edges = <<>> THEN 0 ELSE Head(edges)

RECURSIVE stars_counter(_)
stars_counter(edges) == IF edges = <<>> THEN 0
                        ELSE Head(edges) + stars_counter(Tail(edges))

RECURSIVE TotalCount(_)
TotalCount(ps) == IF ps = <<>> THEN 0 ELSE Len(Head(ps).stars) + TotalCount(Tail(ps))

Abort(at, remote) ==
    /\ pc' = "aborted"
    /\ hist' = [hist EXCEPT !.abortAt = at, !.failed = @ \/ remote]

\* One iteration of the while loop: one query_request.  The cursor is the number
\* of the last page read (0 for None); the API answers with the page after it.
ProfilePage ==
    /\ pc = "profile"
    /\ \E status \in {200, 502} :
        IF status /= 200
        THEN /\ Abort("profile", TRUE)
             /\ UNCHANGED prof
        ELSE LET n == prof.after + 1
                 page == pages[n]
                 hasNextPage == n < Len(pages)
             IN  /\ prof' = [after |-> IF hasNextPage THEN n ELSE prof.after,
                             repos_count |-> TotalCount(pages),
                             followers |-> page.followers,
                             total_stars |-> prof.total_stars + stars_counter(page.stars)]
                 /\ hist' = [hist EXCEPT !.reqs = Append(@, prof.after)]
                 /\ pc' = IF hasNextPage THEN "profile" ELSE "contrib"
    /\ UNCHANGED <<cacheFile, svgFile, pages, contrib, cache, repos, idx, updated,
                   tot, stats, reloaded>>

(***************************************************************************)
(* graph_contributions_all_time                                            *)
(***************************************************************************)
Contributions ==
    /\ pc = "contrib"
    /\ \E status \in {200, 502} :
        IF status /= 200
        THEN Abort("contrib", TRUE) /\ UNCHANGED contrib
        ELSE /\ contrib' = 7
             /\ pc' = "list"
             /\ UNCHANGED hist
    /\ UNCHANGED <<cacheFile, svgFile, pages, prof, cache, repos, idx, updated,
                   tot, stats, reloaded>>

(***************************************************************************)
(* get_total_loc_cached                                                    *)
(***************************************************************************)
\* load_cache, then the listing request.  The error object is a dict: the for
\* loop would iterate its keys and repo["id"] raises on the first one.
LoadAndList ==
    /\ pc = "list"
    /\ cache' = load_cache(cacheFile)
    /\ \E kind \in {"ok", "err_json", "err_text"} :
        IF kind /= "ok"
        THEN /\ pc' = "aborted"
             /\ hist' = [hist EXCEPT !.abortAt = "list", !.failed = TRUE,
                                     !.loaded = cache']
             /\ UNCHANGED <<repos, idx, updated, tot>>
        ELSE /\ \E l \in Listings : repos' = l
             /\ idx' = 1
             /\ updated' = FALSE
             /\ tot' = ZeroTot
             /\ hist' = [hist EXCEPT !.loaded = cache']
             /\ pc' = "loop"
    /\ UNCHANGED <<cacheFile, svgFile, pages, prof, contrib, stats, reloaded>>

\* The recomputed entry, were compute_repo_loc's tuple unpacked in the wrong order
FreshEntrySwapped(repo, r) ==
    [total_commits |-> r.my_commits, my_commits |-> r.total_commits,
     loc_add |-> r.loc_add, loc_del |-> r.loc_del,
     pushed_at |-> repo.pushed_at, name |-> [has |-> TRUE, s |-> repo.name]]

\* The dict get_total_loc_cached stores for a recomputed repository.
FreshEntry(repo, r) ==
    [total_commits |-> r.total_commits, my_commits |-> r.my_commits,
     loc_add |-> r.loc_add, loc_del |-> r.loc_del,
     pushed_at |-> repo.pushed_at, name |-> [has |-> TRUE, s |-> repo.name]]

\* `not cached or cached["pushed_at"] != pushed_at`
NeedsCompute(c, repo) ==
    \/ ~Has(c, IntStr(repo.id))
    \/ Get(c, IntStr(repo.id)).pushed_at /= repo.pushed_at

\* The totals, were the deletions added to total_add as well
AddEntryMixed(t, e) ==
    [total_add |-> t.total_add + e.loc_add + e.loc_del,
     total_del |-> t.total_del + e.loc_del,
     total_commits |-> t.total_commits + e.total_commits,
     my_commits_total |-> t.my_commits_total + e.my_commits]

\* total_add += ..., total_del += ..., total_commits += ..., my_commits_total += ...
AddEntry(t, e) ==
    [total_add |-> t.total_add + e.loc_add,
     total_del |-> t.total_del + e.loc_del,
     total_commits |-> t.total_commits + e.total_commits,
     my_commits_total |-> t.my_commits_total + e.my_commits]

\* The loop's iteration, were the cache saved as soon as an entry is recomputed
LocRepoSavingEach ==
    /\ pc = "loop"
    /\ idx <= Len(repos)
    /\ LET repo == repos[idx]
           repo_id == IntStr(repo.id)
       IN  IF NeedsCompute(cache, repo)
           THEN \E answer \in CommitListAnswers :
                  LET r == compute_repo_loc(answer)
                      h == [hist EXCEPT !.calls = @ \cup {repo_id},
                                        !.fresh = Put(@, repo_id, r),
                                        !.failed = @ \/ r.failed]
                  IN  IF r.raised
                      THEN /\ pc' = "aborted"
                           /\ hist' = [h EXCEPT !.abortAt = "loop"]
                           /\ UNCHANGED <<cache, idx, updated, tot, cacheFile>>
                      ELSE /\ cache' = Put(cache, repo_id, FreshEntry(repo, r))
                           /\ cacheFile' = save_cache(cache')
                           /\ updated' = FALSE
                           /\ tot' = AddEntry(tot, Get(cache', repo_id))
                           /\ idx' = idx + 1
                           /\ hist' = [h EXCEPT !.cacheWrites = @ + 1]
                           /\ pc' = "loop"
           ELSE /\ tot' = AddEntry(tot, Get(cache, repo_id))
                /\ idx' = idx + 1
                /\ hist' = [hist EXCEPT !.reused = @ \cup {repo_id}]
                /\ UNCHANGED <<cache, updated, pc, cacheFile>>
    /\ UNCHANGED <<svgFile, pages, prof, contrib, repos, stats, reloaded>>

\* One iteration of the for loop over the listing.
LocRepo ==
    /\ pc = "loop"
    /\ idx <= Len(repos)
    /\ LET repo == repos[idx]
           repo_id == IntStr(repo.id)
       IN  IF NeedsCompute(cache, repo)
           THEN \E answer \in CommitListAnswers :
                  LET r == compute_repo_loc(answer)
                      h == [hist EXCEPT !.calls = @ \cup {repo_id},
                                        !.fresh = Put(@, repo_id, r),
                                        !.failed = @ \/ r.failed]
                  IN  IF r.raised
                      THEN /\ pc' = "aborted"
                           /\ hist' = [h EXCEPT !.abortAt = "loop"]
                           /\ UNCHANGED <<cache, idx, updated, tot>>
                      ELSE /\ cache' = Put(cache, repo_id, FreshEntry(repo, r))
                           /\ updated' = TRUE
                           /\ tot' = AddEntry(tot, Get(cache', repo_id))
                           /\ idx' = idx + 1
                           /\ hist' = h
                           /\ pc' = "loop"
           ELSE /\ tot' = AddEntry(tot, Get(cache, repo_id))
                /\ idx' = idx + 1
                /\ hist' = [hist EXCEPT !.reused = @ \cup {repo_id}]
                /\ UNCHANGED <<cache, updated, pc>>
    /\ UNCHANGED <<cacheFile, svgFile, pages, prof, contrib, repos, stats, reloaded>>

StatKeys == {"repos", "followers", "stars", "commits", "loc_total", "loc_add",
             "loc_del", "contributed"}

\* The dict get_total_loc_cached returns
LocData(t) == [loc_add |-> t.total_add, loc_del |-> t.total_del,
               loc_total |-> t.total_add + t.total_del,
               total_commits |-> t.total_commits,
               my_commits |-> t.my_commits_total]

\* The dict get_stats_for_svg returns
StatsForSvg(p, c, loc_data) ==
    [key \in StatKeys |->
        CASE key = "repos" -> p.repos_count
          [] key = "followers" -> p.followers
          [] key = "stars" -> p.total_stars
          [] key = "commits" -> loc_data.total_commits
          [] key = "loc_total" -> loc_data.loc_total
          [] key = "loc_add" -> loc_data.loc_add
          [] key = "loc_del" -> loc_data.loc_del
          [] key = "contributed" -> c]

\* The API's pushed_at of each repository recomputed in this run.
RECURSIVE Reported(_, _, _)
Reported(rep, c, ids) ==
    IF ids = {} THEN rep
    ELSE LET id == CHOOSE x \in ids : TRUE
         IN  Reported(Put(rep, id, Get(c, id).pushed_at), c, ids \ {id})

\* The end of get_total_loc_cached, were the cache saved whether updated or not
LocFinishAlwaysSaving ==
    /\ pc = "loop"
    /\ idx > Len(repos)
    /\ cacheFile' = save_cache(cache)
    /\ hist' = [hist EXCEPT !.cacheWrites = @ + 1,
                            !.reported = Reported(@, cache, hist.calls)]
    /\ stats' = StatsForSvg(prof, contrib, LocData(tot))
    /\ pc' = "svg"
    /\ UNCHANGED <<svgFile, pages, prof, contrib, cache, repos, idx, updated, tot,
                   reloaded>>

\* The end of get_total_loc_cached (the save, if updated) and of get_stats_for_svg.
LocFinish ==
    /\ pc = "loop"
    /\ idx > Len(repos)
    /\ IF updated
       THEN /\ cacheFile' = save_cache(cache)
            /\ hist' = [hist EXCEPT !.cacheWrites = @ + 1,
                                    !.reported = Reported(@, cache, hist.calls)]
       ELSE UNCHANGED <<cacheFile, hist>>
    /\ stats' = StatsForSvg(prof, contrib, LocData(tot))
    /\ pc' = "svg"
    /\ UNCHANGED <<svgFile, pages, prof, contrib, cache, repos, idx, updated, tot,
                   reloaded>>

(***************************************************************************)
(* update_svg                                                              *)
(***************************************************************************)
Elem(ns, local, hasId, id, text) ==
    [tag |-> [ns |-> ns, local |-> local],
     attrib |-> [has |-> hasId, id |-> id],
     text |-> text]

\* tag.split("}", 1)[-1] of "{ns}local" or "local"
strip_ns(tag) == tag.local

\* elem.attrib.get("id", "")
AttribId(elem) == IF elem.attrib.has THEN elem.attrib.id ELSE ""

\* The key of stats the if/elif chain reads for an id ("" when no branch matches).
StatKeyOf(el_id) ==
    CASE el_id = "repo_data" -> "repos"
      [] el_id = "contrib_data" -> "contributed"
      [] el_id = "star_data" -> "stars"
      [] el_id = "commit_data" -> "commits"
      [] el_id = "follower_data" -> "followers"
      [] el_id = "loc_data" -> "loc_total"
      [] el_id = "loc_add" -> "loc_add"
      [] el_id = "loc_del" -> "loc_del"
      [] OTHER -> ""

\* The loop over root.iter(): stats[key] raises KeyError on a key stats lacks.
RECURSIVE PatchLoop(_, _, _)
PatchLoop(elems, st, done) ==
    IF elems = <<>> THEN [raised |-> FALSE, elems |-> done]
    ELSE LET elem == Head(elems)
             key == StatKeyOf(AttribId(elem))
         IN  IF strip_ns(elem.tag) /= "tspan" \/ key = ""
             THEN PatchLoop(Tail(elems), st, Append(done, elem))
             ELSE IF key \notin DOMAIN st
                  THEN [raised |-> TRUE, elems |-> done \o elems]
                  ELSE PatchLoop(Tail(elems), st,
                           Append(done, [elem EXCEPT !.text = IntStr(st[key])]))

\* update_svg(SVG_PATH, stats): ET.parse raises on a file that is not XML; the
\* file is written after the loop.
UpdateSvg ==
    /\ pc = "svg"
    /\ IF ~svgFile.parseable
       THEN /\ pc' = "aborted"
            /\ hist' = [hist EXCEPT !.abortAt = "svg_parse"]
            /\ UNCHANGED svgFile
       ELSE LET r == PatchLoop(svgFile.elems, stats, <<>>)
            IN  IF r.raised
                THEN /\ pc' = "aborted"
                     /\ hist' = [hist EXCEPT !.abortAt = "svg_patch"]
                     /\ UNCHANGED svgFile
                ELSE /\ svgFile' = [parseable |-> TRUE, elems |-> r.elems]
                     /\ hist' = [hist EXCEPT !.svgWrites = @ + 1]
                     /\ pc' = "done"
    /\ UNCHANGED <<cacheFile, pages, prof, contrib, cache, repos, idx, updated, tot,
                   stats, reloaded>>

(***************************************************************************)
(* The program: a run of __main__ on the files earlier use left.           *)
(***************************************************************************)
NoFile == [exists |-> FALSE, lines |-> <<>>]

\* The cache file before the run: none, or one left by earlier use (short
\* records, an entry saved with pushed_at None, a repository no longer listed).
FirstCacheFiles ==
    { NoFile,
      [exists |-> TRUE,
       lines |-> << Header,
                    Join(<<<<"1">>, <<"5">>, <<"2">>, <<"7">>, <<"3">>, <<"t", "1">>>>),
                    Join(<<<<"2">>, <<"4">>, <<"1">>>>) >>],
      [exists |-> TRUE,
       lines |-> << Header,
                    Join(<<<<"2">>, <<"1">>, <<"1">>, <<"1">>, <<"2">>,
                           <<"N", "o", "n", "e">>>>),
                    Join(<<<<"9">>, <<"6">>, <<"5">>, <<"8">>, <<"4">>, <<"t", "2">>>>) >>] }

NotXml == [parseable |-> FALSE, elems |-> <<>>]

FirstSvgs ==
    { NotXml,
      [parseable |-> TRUE,
       elems |-> << Elem("svg", "svg", FALSE, "", <<>>),
                    Elem("svg", "text", TRUE, "star_data", <<"s">>),
                    Elem("svg", "tspan", TRUE, "star_data", <<"0">>),
                    Elem("svg", "tspan", TRUE, "loc_data", <<"0">>),
                    Elem("svg", "tspan", TRUE, "motto", <<"m">>),
                    Elem("svg", "tspan", FALSE, "", <<"n">>) >>] }

Init ==
    /\ pc = "profile"
    /\ cacheFile \in FirstCacheFiles
    /\ svgFile \in FirstSvgs
    /\ pages \in RunPages
    /\ prof = IdleProf
    /\ contrib = 0
    /\ cache = EmptyDict
    /\ repos = <<>>
    /\ idx = 0
    /\ updated = FALSE
    /\ tot = ZeroTot
    /\ stats = <<>>
    /\ reloaded = EmptyDict
    /\ hist = [NoHist EXCEPT !.file0 = cacheFile, !.svg0 = svgFile]

Next == ProfilePage \/ Contributions \/ LoadAndList \/ LocRepo \/ LocFinish
        \/ UpdateSvg

Spec == Init /\ [][Next]_vars

(***************************************************************************)
(* Runs of __main__, one after the other, on the same files.               *)
(***************************************************************************)
\* The process ends (exit code 0 or an uncaught exception); a new one starts.
NextRun ==
    /\ pc \in {"done", "aborted"}
    /\ hist.run < MaxRuns
    /\ pc' = "profile"
    /\ pages' \in RunPages
    /\ prof' = IdleProf
    /\ contrib' = 0
    /\ cache' = EmptyDict
    /\ repos' = <<>>
    /\ idx' = 0
    /\ updated' = FALSE
    /\ tot' = ZeroTot
    /\ stats' = <<>>
    /\ hist' = [NoHist EXCEPT !.file0 = cacheFile, !.svg0 = svgFile,
                              !.run = hist.run + 1, !.reported = hist.reported]
    /\ UNCHANGED <<cacheFile, svgFile, reloaded>>

NextRuns == ProfilePage \/ Contributions \/ LoadAndList \/ LocRepo \/ LocFinish
            \/ UpdateSvg \/ NextRun

SpecRuns == Init /\ [][NextRuns]_vars

(***************************************************************************)
(* Scenario: graph_profile_stats on any sequence of pages.                 *)
(***************************************************************************)
PagePool == {Page(st, fo) : st \in {<<>>, <<2>>, <<1, 3>>}, fo \in {3, 4}}

ProfilePages == UNION {SeqsOfLen(PagePool, n) : n \in 1..MaxPages}

InitProfile ==
    /\ pc = "profile"
    /\ pages \in ProfilePages
    /\ cacheFile = NoFile
    /\ svgFile = NotXml
    /\ prof = IdleProf
    /\ contrib = 0
    /\ cache = EmptyDict
    /\ repos = <<>>
    /\ idx = 0
    /\ updated = FALSE
    /\ tot = ZeroTot
    /\ stats = <<>>
    /\ reloaded = EmptyDict
    /\ hist = NoHist

NextProfile == ProfilePage

SpecProfile == InitProfile /\ [][NextProfile]_vars

(***************************************************************************)
(* Scenario: update_svg on any document and any stats dict.                *)
(***************************************************************************)
ElemPool ==
    { Elem("svg", "tspan", TRUE, "star_data", <<"0">>),
      Elem("", "tspan", TRUE, "repo_data", <<"0">>),
      Elem("svg", "tspan", TRUE, "loc_del", <<"9">>),
      Elem("svg", "tspan", TRUE, "motto", <<"m">>),
      Elem("svg", "tspan", FALSE, "", <<"n">>),
      Elem("svg", "text", TRUE, "star_data", <<"s">>),
      Elem("svg", "svg", FALSE, "", <<>>) }

FullStats == StatsForSvg([repos_count |-> 3, followers |-> 10, total_stars |-> 42],
                         7, [total_commits |-> 5, loc_total |-> 120,
                             loc_add |-> 100, loc_del |-> 20])

Restrict(f, S) == [x \in S |-> f[x]]

StatDicts == { FullStats,
               Restrict(FullStats, {"stars"}),
               Restrict(FullStats, StatKeys \ {"loc_del"}),
               Restrict(FullStats, {}) }

InitSvg ==
    /\ pc = "svg"
    /\ svgFile \in {NotXml} \cup
                   {[parseable |-> TRUE, elems |-> q] :
                       q \in UNION {SeqsOfLen(ElemPool, n) : n \in 0..MaxElems}}
    /\ stats \in StatDicts
    /\ pages = <<>>
    /\ cacheFile = NoFile
    /\ prof = IdleProf
    /\ contrib = 0
    /\ cache = EmptyDict
    /\ repos = <<>>
    /\ idx = 0
    /\ updated = FALSE
    /\ tot = ZeroTot
    /\ reloaded = EmptyDict
    /\ hist = [NoHist EXCEPT !.svg0 = svgFile]

NextSvg == UpdateSvg

SpecSvg == InitSvg /\ [][NextSvg]_vars

(***************************************************************************)
(* Scenario: load_cache, save_cache and load_cache again on a cache file.  *)
(***************************************************************************)
LinePool ==
    { <<>>,
      <<"#", " ", "c">>,
      <<"1">>,
      <<"2">>,
      Join(<<<<"1">>, <<"5">>, <<"2">>, <<"7">>, <<"3">>, <<"t", "1">>>>),
      Join(<<<<"1">>, <<"4">>, <<"1">>>>),
      Join(<<<<"2">>, <<"6">>, <<"2">>, <<"8">>, <<"1">>>>) \o <<" ">>,
      Join(<<<<"2">>, <<"x">>, <<"1">>, <<"1">>, <<"1">>, <<"t", "2">>>>),
      Join(<<<<"1">>, <<"1">>, <<"1">>, <<"1">>, <<"1", "y">>>>),
      <<" ", " ">> \o Join(<<<<"2">>, <<"0", "7">>, <<"+", "1">>, <<"-", "3">>,
                             <<"0">>, <<"t", "2">>, <<"z">>>>) \o <<"\t">>,
      Join(<<<<"1">>, <<"5">>, <<"2">>, <<"7">>, <<"3">>, <<"N", "o", "n", "e">>>>) }

RECURSIVE FilesOfLen(_)
FilesOfLen(n) == IF n = 0 THEN {<<>>}
                 ELSE {Append(f, l) : f \in FilesOfLen(n - 1), l \in LinePool}

TestFiles == UNION {FilesOfLen(n) : n \in 0..MaxLines}

InitCache ==
    /\ pc = "c_start"
    /\ cacheFile \in {NoFile}
                     \cup {[exists |-> TRUE, lines |-> f] : f \in TestFiles}
    /\ svgFile = NotXml
    /\ pages = <<>>
    /\ prof = IdleProf
    /\ contrib = 0
    /\ cache = EmptyDict
    /\ repos = <<>>
    /\ idx = 0
    /\ updated = FALSE
    /\ tot = ZeroTot
    /\ stats = <<>>
    /\ reloaded = EmptyDict
    /\ hist = [NoHist EXCEPT !.file0 = cacheFile]

CacheLoad ==
    /\ pc = "c_start"
    /\ cache' = load_cache(cacheFile)
    /\ pc' = "c_loaded"
    /\ UNCHANGED <<cacheFile, svgFile, pages, prof, contrib, repos, idx, updated,
                   tot, stats, reloaded, hist>>

CacheSave ==
    /\ pc = "c_loaded"
    /\ cacheFile' = save_cache(cache)
    /\ hist' = [hist EXCEPT !.cacheWrites = @ + 1]
    /\ pc' = "c_saved"
    /\ UNCHANGED <<svgFile, pages, prof, contrib, cache, repos, idx, updated, tot,
                   stats, reloaded>>

CacheReload ==
    /\ pc = "c_saved"
    /\ reloaded' = load_cache(cacheFile)
    /\ pc' = "c_done"
    /\ UNCHANGED <<cacheFile, svgFile, pages, prof, contrib, cache, repos, idx,
                   updated, tot, stats, hist>>

NextCache == CacheLoad \/ CacheSave \/ CacheReload

SpecCache == InitCache /\ [][NextCache]_vars

(***************************************************************************)
(* Properties of the cache file (specification SpecCache).                 *)
(***************************************************************************)
\* The records of the file the scenario started from, read as the file format
\* describes them: whitespace-separated fields, `#` and blank lines ignored.
Lines0 == hist.file0.lines
Toks(k) == Split(Strip(Lines0[k]))
IsRecord(k) == Toks(k) /= <<>> /\ Head(Toks(k)[1]) /= "#"
CountOk(k, j) == Len(Toks(k)) < j \/ PyInt(Toks(k)[j]).ok
Loadable(k) == IsRecord(k) /\ \A j \in 2..5 : CountOk(k, j)
Count(k, j) == IF Len(Toks(k)) < j THEN 0 ELSE PyInt(Toks(k)[j]).val
Stamp(k) == IF Len(Toks(k)) < 6 THEN <<>> ELSE Toks(k)[6]
LastFor(key) == CHOOSE k \in 1..Len(Lines0) :
                    /\ Loadable(k) /\ Toks(k)[1] = key
                    /\ \A k2 \in (k + 1)..Len(Lines0) :
                           ~(Loadable(k2) /\ Toks(k2)[1] = key)
EntryOf(k) == [total_commits |-> Count(k, 2), my_commits |-> Count(k, 3),
               loc_add |-> Count(k, 4), loc_del |-> Count(k, 5),
               pushed_at |-> PyStr(Stamp(k)), name |-> NoName]

\* C4 (as stated): a record of a single token produces no entry: its id is in
\* the loaded mapping only when a longer loadable record of the file has that id.
C4_SingleTokenSkipped ==
    pc = "c_loaded" =>
        \A k \in 1..Len(Lines0) :
            (IsRecord(k) /\ Len(Toks(k)) = 1 /\ Has(cache, Toks(k)[1])) =>
                \E k2 \in 1..Len(Lines0) :
                    Loadable(k2) /\ Len(Toks(k2)) > 1 /\ Toks(k2)[1] = Toks(k)[1]

\* C4 (amended): load_cache never aborts; a record with a count field that is no
\* integer produces no entry; every other record, a single token included, is
\* loaded: the mapping holds exactly the ids of those records, each with the
\* fields of the last such record of that id, absent counts read as 0 and an
\* absent pushed_at as the empty string.
C4_LoadSkipsMalformed ==
    pc = "c_loaded" =>
        /\ Keys(cache) = {Toks(k)[1] : k \in {j \in 1..Len(Lines0) : Loadable(j)}}
        /\ \A key \in Keys(cache) : Get(cache, key) = EntryOf(LastFor(key))

\* A file with a record of one token, a record with a bad count and a full
\* record has been loaded.
C4_Witness ==
    /\ pc = "c_loaded"
    /\ \E k \in 1..Len(Lines0) : IsRecord(k) /\ Len(Toks(k)) = 1
    /\ \E k \in 1..Len(Lines0) : IsRecord(k) /\ ~Loadable(k)
    /\ \E k \in 1..Len(Lines0) : Loadable(k) /\ Len(Toks(k)) >= 6
    /\ Len(cache.keys) = 2

\* C6: loading the file save_cache wrote for a loaded mapping gives that mapping
\* back: the same ids, and the same counts and pushed_at for each id.
C6_SaveLoadRoundTrip ==
    pc = "c_done" => DictEq(reloaded, cache)

\* The round trip has run on a file with a short record, a duplicate id and a
\* comment or blank line, and the mapping is not empty.
C6_Witness ==
    /\ pc = "c_done"
    /\ \E k \in 1..Len(Lines0) : Loadable(k) /\ Len(Toks(k)) < 6
    /\ \E k \in 1..Len(Lines0), k2 \in 1..Len(Lines0) :
           k < k2 /\ Loadable(k) /\ Loadable(k2) /\ Toks(k)[1] = Toks(k2)[1]
    /\ \E k \in 1..Len(Lines0) : ~IsRecord(k)
    /\ cache.keys /= <<>>
    /\ hist.file0 /= cacheFile

(***************************************************************************)
(* Properties of a run (specification Spec; C2 across runs, SpecRuns).     *)
(***************************************************************************)
RepoId(k) == IntStr(repos[k].id)

\* The repository at position k of the listing had no entry in the cache as
\* loaded, or one with another push timestamp.
StaleAtLoad(k) ==
    \/ ~Has(hist.loaded, RepoId(k))
    \/ Get(hist.loaded, RepoId(k)).pushed_at /= repos[k].pushed_at

\* The API reported, when the entry of repository k was last recomputed and
\* written, the push timestamp it reports now.
UnchangedSinceWrite(k) ==
    /\ Has(hist.reported, RepoId(k))
    /\ Get(hist.reported, RepoId(k)) = repos[k].pushed_at

Counts(e) == <<e.total_commits, e.my_commits, e.loc_add, e.loc_del>>

RECURSIVE SumOver(_, _)
SumOver(S, f) ==
    IF S = {} THEN <<0, 0, 0, 0>>
    ELSE LET x == CHOOSE y \in S : TRUE
             rest == SumOver(S \ {x}, f)
         IN  <<f[x][1] + rest[1], f[x][2] + rest[2], f[x][3] + rest[3],
               f[x][4] + rest[4]>>

TotCounts == <<tot.total_commits, tot.my_commits_total, tot.total_add, tot.total_del>>

AfterLoop == pc \in {"svg", "done"} \/ (pc = "aborted" /\ hist.abortAt \in {"svg_parse", "svg_patch"})

\* C1 (as stated): a run that ends has either rewritten the SVG, or aborted with
\* the SVG file and the cache file as they were when the run started and no
\* cache file write.
C1_AllOrNothing ==
    /\ pc = "done" => hist.svgWrites = 1
    /\ pc = "aborted" => /\ svgFile = hist.svg0
                         /\ cacheFile = hist.file0
                         /\ hist.cacheWrites = 0

\* C1 (amended): a run that ends has either rewritten the SVG once, or aborted
\* with the SVG file as it was; when the abort is at the profile query, the
\* contributions query, the listing or a repository's computation, the cache
\* file is as it was too and has not been written (an abort at the SVG parse
\* comes after get_total_loc_cached's write).
C1_AbortKeepsSvgAndEarlyAbortKeepsCache ==
    /\ pc = "done" => hist.svgWrites = 1
    /\ pc = "aborted" =>
        /\ svgFile = hist.svg0
        /\ hist.svgWrites = 0
        /\ hist.abortAt \in {"profile", "contrib", "list", "loop"} =>
               cacheFile = hist.file0 /\ hist.cacheWrites = 0

\* A run aborted in a repository's computation after an earlier repository of
\* the listing was recomputed.
C1_Witness ==
    /\ pc = "aborted" /\ hist.abortAt = "loop"
    /\ idx = 2 /\ updated
    /\ hist.file0.exists

\* C2: a listed repository whose push timestamp is the one the API reported when
\* its entry was last recomputed and written is not recomputed, and the totals
\* get its cached counts (here: every repository the loop has passed).
C2_UnchangedIsReused ==
    pc = "loop" =>
        \A k \in 1..(idx - 1) :
            UnchangedSinceWrite(k) =>
                /\ RepoId(k) \notin hist.calls
                /\ Get(cache, RepoId(k)) = Get(hist.loaded, RepoId(k))

\* C3 (as stated): when get_total_loc_cached returns, its totals are the sums
\* over all the entries of the cache mapping.
C3_TotalsSumAllEntries ==
    pc = "svg" =>
        TotCounts = SumOver(Keys(cache), [key \in Keys(cache) |-> Counts(Get(cache, key))])

\* C3 (amended): when get_total_loc_cached returns, its totals are the sums over
\* the cache entries of the repositories of the listing (an entry of a
\* repository the listing lacks is not counted), and loc_total = loc_add + loc_del.
C3_TotalsSumListedEntries ==
    pc = "svg" =>
        /\ TotCounts = SumOver(1..Len(repos),
                               [k \in 1..Len(repos) |-> Counts(Get(cache, RepoId(k)))])
        /\ stats["commits"] = tot.total_commits
        /\ stats["loc_add"] = tot.total_add
        /\ stats["loc_del"] = tot.total_del
        /\ stats["loc_total"] = tot.total_add + tot.total_del

\* A run returned totals from a recomputed repository while the cache holds a
\* counted entry of a repository the listing lacks.
C3_Witness ==
    /\ pc = "svg"
    /\ hist.calls /= {}
    /\ tot.total_add > 0 /\ tot.total_del > 0
    /\ \E key \in Keys(cache) :
          /\ \A k \in 1..Len(repos) : RepoId(k) /= key
          /\ Get(cache, key).loc_add > 0

\* C5: once a remote call has answered with a failure, the run is aborted.
C5_FailureAborts ==
    hist.failed => pc = "aborted"

\* C7: a listed repository whose entry was absent or had another push timestamp
\* is recomputed, and its entry is the new counts and the new push timestamp,
\* whatever the old entry held; the totals are the new counts of those
\* repositories plus the cached counts of the others.
C7_StaleEntryReplaced ==
    pc \in {"loop", "svg"} =>
        /\ \A k \in 1..(idx - 1) :
              StaleAtLoad(k) =>
                  /\ RepoId(k) \in hist.calls
                  /\ Counts(Get(cache, RepoId(k))) = Counts(Get(hist.fresh, RepoId(k)))
                  /\ Get(cache, RepoId(k)).pushed_at = repos[k].pushed_at
                  /\ Get(cache, RepoId(k)).name = [has |-> TRUE, s |-> repos[k].name]
        /\ TotCounts = SumOver(1..(idx - 1),
                          [k \in 1..(idx - 1) |->
                              IF StaleAtLoad(k) THEN Counts(Get(hist.fresh, RepoId(k)))
                              ELSE Counts(Get(hist.loaded, RepoId(k)))])
        /\ pc = "svg" /\ updated =>
              \A k \in 1..Len(repos) :
                  StaleAtLoad(k) =>
                      Counts(Get(load_cache(cacheFile), RepoId(k)))
                          = Counts(Get(hist.fresh, RepoId(k)))

\* A run replaced an entry that had another push timestamp and other counts.
C7_Witness ==
    /\ pc = "svg"
    /\ \E k \in 1..Len(repos) :
          /\ Has(hist.loaded, RepoId(k))
          /\ Get(hist.loaded, RepoId(k)).pushed_at /= repos[k].pushed_at
          /\ Get(hist.loaded, RepoId(k)).loc_add > 0
          /\ \A j \in 1..4 : Counts(Get(hist.loaded, RepoId(k)))[j]
                                 /= Counts(Get(cache, RepoId(k)))[j]

\* C8: the cache file is written at most once in a run, only after the loop has
\* passed the last repository, and only in a run that recomputed an entry;
\* otherwise it is as it was when the run started.
C8_WriteOnlyIfRecomputed ==
    /\ hist.cacheWrites <= 1
    /\ hist.cacheWrites = 1 => AfterLoop /\ hist.calls /= {}
    /\ hist.cacheWrites = 0 => cacheFile = hist.file0

\* A run that found every listed repository's entry fresh has returned.
C8_Witness ==
    /\ pc = "svg"
    /\ Len(repos) >= 1
    /\ hist.calls = {}
    /\ hist.reused /= {}
    /\ hist.cacheWrites = 0
    /\ cacheFile.exists

(***************************************************************************)
(* Properties of graph_profile_stats (specification SpecProfile).          *)
(***************************************************************************)
RECURSIVE StarsOfPages(_, _)
StarsOfPages(ps, n) ==
    IF n = 0 THEN 0
    ELSE StarsOfPages(ps, n - 1)
         + SumOver(1..Len(ps[n].stars),
                   [e \in 1..Len(ps[n].stars) |-> <<ps[n].stars[e], 0, 0, 0>>])[1]

\* C9: every request passes the cursor of the page before (none at first), so
\* each page is read once, in order; the loop stops at the first page without a
\* next page; then the star total is the sum over all edges of all pages and
\* the follower count is the one of the last answer.
C9_PagesSummedOnce ==
    /\ pc \in {"profile", "contrib"} =>
          /\ hist.reqs = [k \in 1..Len(hist.reqs) |-> k - 1]
          /\ prof.total_stars = StarsOfPages(pages, Len(hist.reqs))
    /\ pc = "contrib" =>
          /\ Len(hist.reqs) = Len(pages)
          /\ prof.total_stars = StarsOfPages(pages, Len(pages))
          /\ prof.followers = pages[Len(pages)].followers
    /\ pc = "profile" => Len(hist.reqs) < Len(pages)

\* The loop has ended after more than one page, with several edges in a page.
C9_Witness ==
    /\ pc = "contrib"
    /\ Len(pages) >= 2
    /\ \E n \in 1..Len(pages) : Len(pages[n].stars) >= 2
    /\ prof.total_stars >= 5

(***************************************************************************)
(* Properties of update_svg (specification SpecSvg).                       *)
(***************************************************************************)
Recognized == {"repo_data", "contrib_data", "star_data", "commit_data",
               "follower_data", "loc_data", "loc_add", "loc_del"}

\* C10: update_svg on a parseable document ends without error, whatever the
\* stats; every tspan with a recognized id has its statistic's decimal text,
\* every other node is as it was.
C10_BestEffortPatch ==
    (pc \in {"done", "aborted"} /\ hist.svg0.parseable) =>
        /\ pc = "done"
        /\ Len(svgFile.elems) = Len(hist.svg0.elems)
        /\ \A k \in 1..Len(svgFile.elems) :
              LET old == hist.svg0.elems[k]
                  new == svgFile.elems[k]
                  key == StatKeyOf(old.attrib.id)
              IN  IF old.tag.local = "tspan" /\ old.attrib.has
                     /\ old.attrib.id \in Recognized
                  THEN key \in DOMAIN stats => new.text = IntStr(stats[key])
                  ELSE new = old

====
